---- MODULE Spec2Model ----
(***************************************************************************)
(* Model of the chat endpoint of the Physical AI textbook backend.         *)
(*                                                                         *)
(*   src/backend/main.py  chat_endpoint: key check, textbook search,       *)
(*                        model discovery, generation cascade with         *)
(*                        rate-limit retry, failure message                *)
(*   src/main.py          chat_endpoint: the SDK variant (one model)       *)
(*                                                                         *)
(* Python strings are sequences of tokens (a token is a piece of text no   *)
(* substring test of the code cuts through), so that formatting, joining   *)
(* and slicing are computed as the code computes them.  A Python value is  *)
(* a record [type, val]: Str(s) or None.                                   *)
(***************************************************************************)
EXTENDS Integers, Sequences, FiniteSets, TLC

VARIABLES
    variant,           \* which chat_endpoint serves: "backend" (src/backend/main.py) or "sdk" (src/main.py)
    API_KEY,           \* the configured credential, a Python str or None
    message,           \* request.message
    pc,                \* the endpoint's position
    context_chunks,    \* what search_textbook returned
    context_text,      \* the joined passages
    resp,              \* the discovery response, until the cascade starts
    available_models,  \* the candidate list
    model_idx,         \* position of `model` in available_models
    attempt,           \* the inner loop's counter
    response,          \* the last generation response
    logs,              \* the diagnostic log
    payload,           \* the value returned under "response"
    calls,             \* the external calls issued so far, in order
    other,             \* a second query in flight at the same time, a record
    loop               \* who holds the event loop: "free", "first" or "other"

vars == <<variant, API_KEY, message, pc, context_chunks, context_text, resp,
          available_models, model_idx, attempt, response, logs, payload, calls, other,
          loop>>

\* ------------------------------------------------------------------------
\* Bounds of the model
\* ------------------------------------------------------------------------
\* most passages one retrieval returns (the code asks for top_k=3)
MaxPassages == 2
\* most models one discovery response lists
MaxDiscovered == 2

\* ------------------------------------------------------------------------
\* Python values
\* ------------------------------------------------------------------------
Str(s) == [type |-> "str", val |-> s]

None == [type |-> "NoneType", val |-> <<>>]

\* the value not yet assigned
Unset == [type |-> "unset", val |-> <<>>]

\* variant: the test `x is not None`, which lets the empty string through
TruthyNotNone(v) == v.type = "str"

\* Python truthiness of a str-or-None value: `not x` is the negation
Truthy(v) == v.type = "str" /\ v.val # <<>>

\* a or b
PyOr(a, b) == IF Truthy(a) THEN a ELSE b

\* s[:n]
Prefix(s, n) == SubSeq(s, 1, IF Len(s) < n THEN Len(s) ELSE n)

\* sep.join(parts), parts a sequence of strings
RECURSIVE Join(_, _)
Join(parts, sep) ==
    IF parts = <<>> THEN <<>>
    ELSE IF Len(parts) = 1 THEN parts[1]
    ELSE parts[1] \o sep \o Join(Tail(parts), sep)

\* tok in s, for a token no other token contains
Contains(s, tok) == \E i \in 1..Len(s) : s[i] = tok

\* s.replace(tok, "")
Remove(s, tok) == SelectSeq(s, LAMBDA t : t # tok)

DigitChar(d) == <<"0", "1", "2", "3", "4", "5", "6", "7", "8", "9">>[d + 1]

\* str(n) for a natural number
RECURSIVE IntStr(_)
IntStr(n) == IF n < 10 THEN <<DigitChar(n)>>
             ELSE IntStr(n \div 10) \o <<DigitChar(n % 10)>>

\* all sequences over S of length at most n
RECURSIVE SeqsUpTo(_, _)
SeqsUpTo(S, n) ==
    IF n = 0 THEN {<<>>}
    ELSE LET shorter == SeqsUpTo(S, n - 1)
         IN  shorter \cup {Append(s, x) : s \in {t \in shorter : Len(t) = n - 1}, x \in S}

\* sequences without repeated elements
Distinct(s) == \A i, j \in 1..Len(s) : i # j => s[i] # s[j]

\* ------------------------------------------------------------------------
\* Program constants
\* ------------------------------------------------------------------------
\* variant: for attempt in range(3)
AttemptsThree == 2 + 1

\* for attempt in range(2)
Attempts == 2

RATE_LIMITED == 429

NOT_FOUND == 404

OK == 200

MissingKeyMessage ==
    <<"Error: API Key missing. Please set 'AI_API_KEY' or 'GOOGLE_API_KEY' in Vercel.">>

SdkMissingKeyMessage ==
    <<"Error: AI_API_KEY is missing in Vercel Environment Variables.">>

InternalErrorMessage == <<"Sorry, I encountered an internal error.">>

system_instruction ==
    <<"You are an AI Tutor for the 'Physical AI & Humanoid Robotics' textbook. Answer based ONLY on the context. If context is empty, say you don't know.">>

\* the hardcoded candidates used when discovery gives nothing
FallbackModels ==
    << <<"gemini-", "2.0", "-", "flash", "-exp">>,
       <<"gemini-", "1.5", "-", "flash">>,
       <<"gemini-", "1.5", "-", "flash", "-8b">>,
       <<"gemini-", "pro">> >>

\* search_textbook(request.message, top_k=3)
top_k == 3

\* ------------------------------------------------------------------------
\* What the environment can answer
\* ------------------------------------------------------------------------
\* values of the environment variables AI_API_KEY and GOOGLE_API_KEY
EnvValues ==
    { None, Str(<<>>), Str(<<"A", "I", "z">>),
      Str(<<"A", "I", "z", "a", "S", "y", "D", "9", "x">>) }

Messages == { <<"What is a humanoid robot?">> }

Passages == { <<"p1">>, <<"p2">> }

\* the vector store as one query sees it
StoreWorlds ==
    { [unavailable |-> TRUE, faulty |-> FALSE, hits |-> <<>>],
      [unavailable |-> FALSE, faulty |-> TRUE, hits |-> <<>>] }
    \cup { [unavailable |-> FALSE, faulty |-> FALSE, hits |-> h] :
              h \in {t \in SeqsUpTo(Passages, MaxPassages) : Distinct(t)} }

\* entries of a discovery listing: name (absent when has_name is FALSE) and
\* whether supportedGenerationMethods holds "generateContent"
ModelEntries ==
    { [has_name |-> TRUE, name |-> <<"models/", "gemini-", "1.5", "-", "pro">>, generate |-> TRUE],
      [has_name |-> TRUE, name |-> <<"models/", "gemini-", "2.0", "-", "flash">>, generate |-> TRUE],
      [has_name |-> TRUE, name |-> <<"models/", "gemini-", "pro">>, generate |-> TRUE],
      [has_name |-> TRUE, name |-> <<"models/", "gemini-", "2.5", "-", "pro">>, generate |-> TRUE],
      [has_name |-> TRUE, name |-> <<"models/", "embedding-001">>, generate |-> FALSE],
      [has_name |-> TRUE, name |-> <<"models/", "gemini-", "2.0", "-", "flash", "-exp">>,
       generate |-> FALSE],
      [has_name |-> FALSE, name |-> <<>>, generate |-> TRUE] }

NoBody == [json |-> FALSE, has_models |-> FALSE, models |-> <<>>]

\* an HTTP exchange: the call raised (exc), or a status and a body
NoResponse == [exc |-> FALSE, status |-> 0, body |-> NoBody]

DiscoveryResponses ==
    { [exc |-> TRUE, status |-> 0, body |-> NoBody],
      [exc |-> FALSE, status |-> 403, body |-> NoBody],
      [exc |-> FALSE, status |-> OK, body |-> NoBody],
      [exc |-> FALSE, status |-> OK,
       body |-> [json |-> TRUE, has_models |-> FALSE, models |-> <<>>]] }
    \cup { [exc |-> FALSE, status |-> OK,
            body |-> [json |-> TRUE, has_models |-> TRUE, models |-> l]] :
              l \in {t \in SeqsUpTo(ModelEntries, MaxDiscovered) : Distinct(t)} }

AnswerTexts == { Str(<<"ans">>), Str(<<>>), None }

NoGenBody == [json |-> FALSE, has_candidates |-> FALSE, candidates |-> <<>>]

\* bodies of a generation response: unparsable, without "candidates", with an
\* empty list, with a candidate lacking content/parts/text, with a text
GenerationBodies ==
    { NoGenBody,
      [json |-> TRUE, has_candidates |-> FALSE, candidates |-> <<>>],
      [json |-> TRUE, has_candidates |-> TRUE, candidates |-> <<>>],
      [json |-> TRUE, has_candidates |-> TRUE,
       candidates |-> <<[has_text |-> FALSE, text |-> None]>>] }
    \cup { [json |-> TRUE, has_candidates |-> TRUE,
            candidates |-> <<[has_text |-> TRUE, text |-> t]>>] : t \in AnswerTexts }

NoGenResponse == [exc |-> FALSE, status |-> 0, body |-> NoGenBody]

GenerationResponses ==
    { [exc |-> TRUE, status |-> 0, body |-> NoGenBody] }
    \cup { [exc |-> FALSE, status |-> st, body |-> NoGenBody] : st \in {RATE_LIMITED, NOT_FOUND, 500} }
    \cup { [exc |-> FALSE, status |-> OK, body |-> b] : b \in GenerationBodies }

\* outcomes of model.generate_content(prompt) followed by response.text
SdkOutcomes ==
    { [raised |-> TRUE, text |-> <<"429 quota exceeded">>],
      [raised |-> FALSE, text |-> <<"ans">>],
      [raised |-> FALSE, text |-> <<>>] }

\* ------------------------------------------------------------------------
\* The pure parts of the endpoint
\* ------------------------------------------------------------------------
\* search_textbook: a store that cannot be reached gives no passages; the
\* result holds at most top_k chunks, each a dict with "content"
search_textbook(world, k) ==
    IF world.unavailable THEN [raised |-> FALSE, chunks |-> <<>>]
    ELSE IF world.faulty THEN [raised |-> TRUE, chunks |-> <<>>]
    ELSE [raised |-> FALSE,
          chunks |-> [i \in 1..Len(Prefix(world.hits, k)) |-> [content |-> world.hits[i]]]]

\* variant: the passages joined last to first
ContextTextReversed(chunks) ==
    Join([i \in 1..Len(chunks) |-> chunks[Len(chunks) + 1 - i].content], <<"\n\n">>)

\* variant: a placeholder text when nothing was retrieved
ContextTextPlaceholder(chunks) ==
    IF chunks = <<>> THEN <<"No relevant context found.">>
    ELSE Join([i \in 1..Len(chunks) |-> chunks[i].content], <<"\n\n">>)

\* "\n\n".join([c["content"] for c in context_chunks])
ContextText(chunks) ==
    Join([i \in 1..Len(chunks) |-> chunks[i].content], <<"\n\n">>)

\* the line break and the indentation between the lines of the prompt template
PromptBreak == <<"\n            ">>

\* final_prompt: each part on a line of its own, the template's indentation
\* kept, the last line break included
FinalPrompt(ctx, msg) ==
    system_instruction \o PromptBreak \o <<"Context:">> \o PromptBreak
        \o ctx \o PromptBreak \o <<"Question:">> \o PromptBreak
        \o msg \o PromptBreak

\* the sort key of a model name, as a number: (no "2.0", no "1.5", no "flash")
SortKey(x) ==
    (IF Contains(x, "2.0") THEN 0 ELSE 4)
    + (IF Contains(x, "1.5") THEN 0 ELSE 2)
    + (IF Contains(x, "flash") THEN 0 ELSE 1)

\* variant: x put before the elements with an equal key
RECURSIVE InsertSortedUnstable(_, _)
InsertSortedUnstable(l, x) ==
    IF l = <<>> THEN <<x>>
    ELSE IF SortKey(l[1]) < SortKey(x) THEN <<l[1]>> \o InsertSortedUnstable(Tail(l), x)
    ELSE <<x>> \o l

\* x put behind the elements of the sorted list l that do not come after it
RECURSIVE InsertSorted(_, _)
InsertSorted(l, x) ==
    IF l = <<>> THEN <<x>>
    ELSE IF SortKey(l[1]) <= SortKey(x) THEN <<l[1]>> \o InsertSorted(Tail(l), x)
    ELSE <<x>> \o l

\* list.sort(key=...): stable
RECURSIVE PrioritySort(_)
PrioritySort(l) ==
    IF l = <<>> THEN <<>>
    ELSE InsertSorted(PrioritySort(SubSeq(l, 1, Len(l) - 1)), l[Len(l)])

\* variant: the names of all listed models, whatever they support
RECURSIVE GenerateNamesAll(_)
GenerateNamesAll(models) ==
    IF models = <<>> THEN <<>>
    ELSE <<Remove(models[1].name, "models/")>> \o GenerateNamesAll(Tail(models))

\* the names of the listed models that support generateContent, without
\* their "models/" prefix, in listing order
RECURSIVE GenerateNames(_)
GenerateNames(models) ==
    IF models = <<>> THEN <<>>
    ELSE IF models[1].generate
         THEN <<Remove(models[1].name, "models/")>> \o GenerateNames(Tail(models))
         ELSE GenerateNames(Tail(models))

\* the discovery block: available_models when it is left
Discovered(r) ==
    IF r.exc THEN <<>>
    ELSE IF r.status # OK THEN <<>>
    ELSE IF ~r.body.json THEN <<>>
    ELSE IF ~r.body.has_models THEN <<>>
    ELSE IF \E i \in 1..Len(r.body.models) :
               r.body.models[i].generate /\ ~r.body.models[i].has_name THEN <<>>
    ELSE PrioritySort(GenerateNames(r.body.models))

\* variant: no fallback to the hardcoded list
CandidatesNoFallback(r) == Discovered(r)

\* if not available_models: the hardcoded list
Candidates(r) == IF Discovered(r) = <<>> THEN FallbackModels ELSE Discovered(r)

\* variant: the except branch without its break
LogErrorNoBreak == [act |-> "log", brk |-> FALSE, code |-> <<"Error">>, answer |-> None]

LogError == [act |-> "log", brk |-> TRUE, code |-> <<"Error">>, answer |-> None]

\* variant: every 429 is logged, the first one too, before the retry
AttemptBodyLogsEvery429(r, att) ==
    IF r.exc THEN LogError
    ELSE IF r.status = OK /\ ~r.body.json THEN LogError
    ELSE IF r.status = OK /\ r.body.has_candidates /\ r.body.candidates # <<>>
    THEN IF ~r.body.candidates[1].has_text THEN LogError
         ELSE [act |-> "return", brk |-> FALSE, code |-> <<>>,
               answer |-> r.body.candidates[1].text]
    ELSE IF r.status = RATE_LIMITED
    THEN [act |-> "log", brk |-> FALSE, code |-> <<"4", "2", "9">>, answer |-> None]
    ELSE IF r.status = NOT_FOUND
    THEN [act |-> "log", brk |-> TRUE, code |-> <<"4", "0", "4">>, answer |-> None]
    ELSE [act |-> "log", brk |-> TRUE, code |-> IntStr(r.status), answer |-> None]

\* variant: a 429 is logged and the loop breaks, without a retry
AttemptBodyNoRetry(r, att) ==
    IF r.exc THEN LogError
    ELSE IF r.status = OK /\ ~r.body.json THEN LogError
    ELSE IF r.status = OK /\ r.body.has_candidates /\ r.body.candidates # <<>>
    THEN IF ~r.body.candidates[1].has_text THEN LogError
         ELSE [act |-> "return", brk |-> FALSE, code |-> <<>>,
               answer |-> r.body.candidates[1].text]
    ELSE IF r.status = RATE_LIMITED
    THEN [act |-> "log", brk |-> TRUE, code |-> <<"4", "2", "9">>, answer |-> None]
    ELSE IF r.status = NOT_FOUND
    THEN [act |-> "log", brk |-> TRUE, code |-> <<"4", "0", "4">>, answer |-> None]
    ELSE [act |-> "log", brk |-> TRUE, code |-> IntStr(r.status), answer |-> None]

\* variant: the break after a 404 is missing
AttemptBodyRetries404(r, att) ==
    IF r.exc THEN LogError
    ELSE IF r.status = OK /\ ~r.body.json THEN LogError
    ELSE IF r.status = OK /\ r.body.has_candidates /\ r.body.candidates # <<>>
    THEN IF ~r.body.candidates[1].has_text THEN LogError
         ELSE [act |-> "return", brk |-> FALSE, code |-> <<>>,
               answer |-> r.body.candidates[1].text]
    ELSE IF r.status = RATE_LIMITED
    THEN IF att = 0
         THEN [act |-> "sleep", brk |-> FALSE, code |-> <<>>, answer |-> None]
         ELSE [act |-> "log", brk |-> FALSE, code |-> <<"4", "2", "9">>, answer |-> None]
    ELSE IF r.status = NOT_FOUND
    THEN [act |-> "log", brk |-> FALSE, code |-> <<"4", "0", "4">>, answer |-> None]
    ELSE [act |-> "log", brk |-> TRUE, code |-> IntStr(r.status), answer |-> None]

\* variant: the break of the last branch is missing
AttemptBodyRetriesOther(r, att) ==
    IF r.exc THEN LogError
    ELSE IF r.status = OK /\ ~r.body.json THEN LogError
    ELSE IF r.status = OK /\ r.body.has_candidates /\ r.body.candidates # <<>>
    THEN IF ~r.body.candidates[1].has_text THEN LogError
         ELSE [act |-> "return", brk |-> FALSE, code |-> <<>>,
               answer |-> r.body.candidates[1].text]
    ELSE IF r.status = RATE_LIMITED
    THEN IF att = 0
         THEN [act |-> "sleep", brk |-> FALSE, code |-> <<>>, answer |-> None]
         ELSE [act |-> "log", brk |-> FALSE, code |-> <<"4", "2", "9">>, answer |-> None]
    ELSE IF r.status = NOT_FOUND
    THEN [act |-> "log", brk |-> TRUE, code |-> <<"4", "0", "4">>, answer |-> None]
    ELSE [act |-> "log", brk |-> FALSE, code |-> IntStr(r.status), answer |-> None]

\* one pass of the attempt loop's body on the response r at attempt att:
\* return the answer, sleep and continue, or log a code (and break)
AttemptBody(r, att) ==
    IF r.exc THEN LogError
    ELSE IF r.status = OK /\ ~r.body.json THEN LogError
    ELSE IF r.status = OK /\ r.body.has_candidates /\ r.body.candidates # <<>>
    THEN IF ~r.body.candidates[1].has_text THEN LogError
         ELSE [act |-> "return", brk |-> FALSE, code |-> <<>>,
               answer |-> r.body.candidates[1].text]
    ELSE IF r.status = RATE_LIMITED
    THEN IF att = 0
         THEN [act |-> "sleep", brk |-> FALSE, code |-> <<>>, answer |-> None]
         ELSE [act |-> "log", brk |-> FALSE, code |-> <<"4", "2", "9">>, answer |-> None]
    ELSE IF r.status = NOT_FOUND
    THEN [act |-> "log", brk |-> TRUE, code |-> <<"4", "0", "4">>, answer |-> None]
    ELSE [act |-> "log", brk |-> TRUE, code |-> IntStr(r.status), answer |-> None]

\* variant: the entry holds the code without the model
LogEntryCodeOnly(model, code) == code

\* f"{model}: {code}"
LogEntry(model, code) == model \o <<": ">> \o code

\* variant: an empty response when the loop over the models ends
AllFailedMessageEmpty(lg, key) == <<>>

\* the message returned when the loop over the models ends
AllFailedMessage(lg, key) ==
    <<"Error: All models failed. Debug: ">> \o Join(lg, <<", ">>)
        \o <<". Key: ">> \o Prefix(key, 4) \o <<"...">>

\* ------------------------------------------------------------------------
\* The endpoint as a state machine
\* ------------------------------------------------------------------------
\* one entry of calls
Call(kind, model, idx, att, exc, status, unavailable) ==
    [kind |-> kind, model |-> model, idx |-> idx, attempt |-> att,
     exc |-> exc, status |-> status, unavailable |-> unavailable]

\* no second query
NoOther ==
    [pc |-> "none", message |-> <<>>, context_text |-> <<>>, available_models |-> <<>>,
     model_idx |-> 0, attempt |-> 0, logs |-> <<>>, payload |-> Unset, solo |-> TRUE]

\* variant: time.sleep(2), the thread sleeps and the coroutine keeps the
\* event loop
TimeSleep(me) == me

\* await asyncio.sleep(2): the coroutine is suspended on a timer and the
\* event loop is given back
AsyncioSleep(me) == "free"

\* who holds the event loop when the coroutine me has run up to position p:
\* me itself where the code goes on without an await (the call of
\* search_textbook, and generate_content in src/main.py), nobody where it
\* waits in an await of client.get or client.post or has returned
LoopAfter(me, p) ==
    CASE p \in {"search", "generate"} -> me
      [] p = "sleep" -> AsyncioSleep(me)
      [] OTHER -> "free"

\* the event loop runs one coroutine at a time: me runs when the loop is
\* free or it holds the loop already, and runs up to position p
Runs(me, p) ==
    /\ loop \in {"free", me}
    /\ loop' = LoopAfter(me, p)

\* the module is loaded: API_KEY is read from the environment, and a request
\* has arrived
Init ==
    /\ variant \in {"backend", "sdk"}
    /\ \E a \in EnvValues, g \in EnvValues :
          API_KEY = IF variant = "backend" THEN PyOr(a, g) ELSE a
    /\ message \in Messages
    /\ pc = "entry"
    /\ context_chunks = <<>>
    /\ context_text = <<>>
    /\ resp = NoResponse
    /\ available_models = <<>>
    /\ model_idx = 0
    /\ attempt = 0
    /\ response = NoGenResponse
    /\ logs = <<>>
    /\ payload = Unset
    /\ calls = <<>>
    /\ other = NoOther
    /\ loop = "free"

\* if not API_KEY: return the fixed message
Entry ==
    /\ pc = "entry"
    /\ variant = "backend"
    /\ IF ~Truthy(API_KEY)
       THEN /\ payload' = Str(MissingKeyMessage)
            /\ pc' = "returned"
       ELSE /\ pc' = "search"
            /\ UNCHANGED payload
    /\ UNCHANGED <<variant, other, API_KEY, message, context_chunks, context_text, resp, available_models,
                   model_idx, attempt, response, logs, calls>>
    /\ Runs("first", pc')

\* variant: no outer handler, an exception of the search leaves the endpoint
SearchPropagates(world) ==
    /\ pc = "search"
    /\ variant = "backend"
    /\ LET r == search_textbook(world, top_k)
       IN  /\ calls' = Append(calls, Call("search", <<>>, 0, 0, r.raised, 0, world.unavailable))
           /\ IF r.raised
              THEN /\ pc' = "raised"
                   /\ UNCHANGED <<payload, context_chunks, context_text>>
              ELSE /\ context_chunks' = r.chunks
                   /\ context_text' = ContextText(r.chunks)
                   /\ pc' = "discover"
                   /\ UNCHANGED payload
    /\ UNCHANGED <<variant, other, API_KEY, message, resp, available_models,
                   model_idx, attempt, response, logs>>
    /\ Runs("first", pc')

\* 1. Search Textbook; an exception leaves through the outer handler
Search(world) ==
    /\ pc = "search"
    /\ variant = "backend"
    /\ LET r == search_textbook(world, top_k)
       IN  /\ calls' = Append(calls, Call("search", <<>>, 0, 0, r.raised, 0, world.unavailable))
           /\ IF r.raised
              THEN /\ payload' = Str(InternalErrorMessage)
                   /\ pc' = "returned"
                   /\ UNCHANGED <<context_chunks, context_text>>
              ELSE /\ context_chunks' = r.chunks
                   /\ context_text' = ContextText(r.chunks)
                   /\ pc' = "discover"
                   /\ UNCHANGED payload
    /\ UNCHANGED <<variant, other, API_KEY, message, resp, available_models,
                   model_idx, attempt, response, logs>>
    /\ Runs("first", pc')

\* the discovery request and the choice of the candidate list; the loop
\* over the models starts at the first one
Discover(r) ==
    /\ pc = "discover"
    /\ calls' = Append(calls, Call("discover", <<>>, 0, 0, FALSE, 0, FALSE))
    /\ resp' = r
    /\ available_models' = Candidates(r)
    /\ logs' = <<>>
    /\ model_idx' = 1
    /\ attempt' = 0
    /\ pc' = "post"
    /\ UNCHANGED <<variant, other, API_KEY, message, context_chunks, context_text, response, payload>>
    /\ Runs("first", pc')

\* the loop moves to the next model, or ends and the failure message is
\* returned; lg is the log after this model
NextModel(lg) ==
    IF model_idx < Len(available_models)
    THEN /\ model_idx' = model_idx + 1
         /\ attempt' = 0
         /\ pc' = "post"
         /\ UNCHANGED payload
    ELSE /\ payload' = Str(AllFailedMessage(lg, API_KEY.val))
         /\ pc' = "returned"
         /\ UNCHANGED <<model_idx, attempt>>

\* one generation request to the current model and what the loop body does
\* with its response
Post(r) ==
    /\ pc = "post"
    /\ LET model == available_models[model_idx]
           step == AttemptBody(r, attempt)
       IN  /\ calls' = Append(calls, Call("generate", model, model_idx, attempt,
                                          r.exc, r.status, FALSE))
           /\ response' = r
           /\ resp' = NoResponse
           /\ CASE step.act = "return" ->
                    /\ payload' = step.answer
                    /\ pc' = "returned"
                    /\ UNCHANGED <<logs, model_idx, attempt>>
                [] step.act = "sleep" ->
                    /\ pc' = "sleep"
                    /\ UNCHANGED <<logs, model_idx, attempt, payload>>
                [] step.act = "log" ->
                    /\ logs' = Append(logs, LogEntry(model, step.code))
                    /\ IF ~step.brk /\ attempt + 1 < Attempts
                       THEN /\ attempt' = attempt + 1
                            /\ pc' = "post"
                            /\ UNCHANGED <<model_idx, payload>>
                       ELSE NextModel(logs')
    /\ UNCHANGED <<variant, other, API_KEY, message, context_chunks, context_text, available_models>>
    /\ Runs("first", pc')

\* variant: after the backoff the loop goes on with the next model
SleepMovesOn ==
    /\ pc = "sleep"
    /\ IF model_idx < Len(available_models)
       THEN model_idx' = model_idx + 1 /\ attempt' = 0
       ELSE model_idx' = model_idx /\ attempt' = attempt + 1
    /\ pc' = "post"
    /\ UNCHANGED <<variant, other, API_KEY, message, context_chunks, context_text, resp,
                   available_models, response, logs, payload, calls>>
    /\ Runs("first", pc')

\* await asyncio.sleep(2); continue
Sleep ==
    /\ pc = "sleep"
    /\ attempt' = attempt + 1
    /\ pc' = "post"
    /\ UNCHANGED <<variant, other, API_KEY, message, context_chunks, context_text, resp, available_models,
                   model_idx, response, logs, payload, calls>>
    /\ Runs("first", pc')

\* src/main.py: if not model
SdkEntry ==
    /\ pc = "entry"
    /\ variant = "sdk"
    /\ IF ~Truthy(API_KEY)
       THEN /\ payload' = Str(SdkMissingKeyMessage)
            /\ pc' = "returned"
       ELSE /\ pc' = "search"
            /\ UNCHANGED payload
    /\ UNCHANGED <<variant, other, API_KEY, message, context_chunks, context_text, resp, available_models,
                   model_idx, attempt, response, logs, calls>>
    /\ Runs("first", pc')

\* src/main.py: the search; an exception becomes an "AI Error" answer
SdkSearch(world) ==
    /\ pc = "search"
    /\ variant = "sdk"
    /\ LET r == search_textbook(world, top_k)
       IN  /\ calls' = Append(calls, Call("search", <<>>, 0, 0, r.raised, 0, world.unavailable))
           /\ IF r.raised
              THEN /\ payload' = Str(<<"AI Error: ">> \o <<"search failed">>)
                   /\ pc' = "returned"
                   /\ UNCHANGED <<context_chunks, context_text>>
              ELSE /\ context_chunks' = r.chunks
                   /\ context_text' = ContextText(r.chunks)
                   /\ pc' = "generate"
                   /\ UNCHANGED payload
    /\ UNCHANGED <<variant, other, API_KEY, message, resp, available_models,
                   model_idx, attempt, response, logs>>
    /\ Runs("first", pc')

\* src/main.py: model.generate_content(prompt) and response.text
SdkGenerate(o) ==
    /\ pc = "generate"
    /\ calls' = Append(calls, Call("generate", <<"gemini-", "1.5", "-", "flash">>, 1, 0,
                                   o.raised, 0, FALSE))
    /\ payload' = IF o.raised THEN Str(<<"AI Error: ">> \o o.text) ELSE Str(o.text)
    /\ pc' = "returned"
    /\ UNCHANGED <<variant, other, API_KEY, message, context_chunks, context_text, resp, available_models,
                   model_idx, attempt, response, logs>>
    /\ Runs("first", pc')

Next ==
    \/ Entry
    \/ \E w \in StoreWorlds : Search(w)
    \/ \E r \in DiscoveryResponses : Discover(r)
    \/ \E r \in GenerationResponses : Post(r)
    \/ Sleep
    \/ SdkEntry
    \/ \E w \in StoreWorlds : SdkSearch(w)
    \/ \E o \in SdkOutcomes : SdkGenerate(o)

Spec == Init /\ [][Next]_vars

\* every external call is answered or raises, and the endpoint goes on
FairSpec == Spec /\ WF_vars(Next)

TypeOK ==
    /\ pc \in {"entry", "search", "discover", "post", "sleep", "generate", "returned"}
    /\ attempt \in 0..(Attempts - 1)
    /\ model_idx \in 0..Len(available_models)
    /\ loop \in {"free", "first", "other"}

\* ------------------------------------------------------------------------
\* Two queries in flight on one event loop
\* ------------------------------------------------------------------------
\* the state of the first query
Q1Vars == <<variant, API_KEY, message, pc, context_chunks, context_text, resp,
            available_models, model_idx, attempt, response, logs, payload, calls>>

OtherMessages == { <<"Explain the zero moment point.">> }

\* what the services answer in the two-query runs
ConcStoreWorlds ==
    { [unavailable |-> TRUE, faulty |-> FALSE, hits |-> <<>>],
      [unavailable |-> FALSE, faulty |-> TRUE, hits |-> <<>>],
      [unavailable |-> FALSE, faulty |-> FALSE, hits |-> << <<"p1">> >>] }

ConcDiscoveryResponses ==
    { [exc |-> TRUE, status |-> 0, body |-> NoBody],
      [exc |-> FALSE, status |-> OK,
       body |-> [json |-> TRUE, has_models |-> TRUE,
                 models |-> << [has_name |-> TRUE, generate |-> TRUE,
                                name |-> <<"models/", "gemini-", "1.5", "-", "pro">>],
                               [has_name |-> TRUE, generate |-> TRUE,
                                name |-> <<"models/", "gemini-", "2.0", "-", "flash">>] >>]] }

ConcGenerationResponses ==
    { [exc |-> FALSE, status |-> RATE_LIMITED, body |-> NoGenBody],
      [exc |-> FALSE, status |-> NOT_FOUND, body |-> NoGenBody],
      [exc |-> FALSE, status |-> OK,
       body |-> [json |-> TRUE, has_candidates |-> TRUE,
                 candidates |-> <<[has_text |-> TRUE, text |-> Str(<<"ans">>)]>>]] }

\* variant: logs is one list of the module, seen by every query
OtherFrameSharedLogs ==
    /\ logs' = other'.logs
    /\ UNCHANGED <<variant, API_KEY, message, pc, context_chunks, context_text, resp,
                   available_models, model_idx, attempt, response, payload, calls>>

\* the second query works on its own locals
OtherFrame == UNCHANGED Q1Vars

\* a step of the second query to the record f; solo tells whether all its
\* steps were taken while the first query was in its backoff
OtherStep(f) ==
    /\ other' = [f EXCEPT !.solo = other.solo /\ pc = "sleep"]
    /\ OtherFrame
    /\ Runs("other", f.pc)

OtherEntry ==
    /\ other.pc = "entry"
    /\ OtherStep(IF ~Truthy(API_KEY)
                 THEN [other EXCEPT !.payload = Str(MissingKeyMessage), !.pc = "returned"]
                 ELSE [other EXCEPT !.pc = "search"])

OtherSearch(world) ==
    /\ other.pc = "search"
    /\ LET r == search_textbook(world, top_k)
       IN  OtherStep(IF r.raised
                     THEN [other EXCEPT !.payload = Str(InternalErrorMessage), !.pc = "returned"]
                     ELSE [other EXCEPT !.context_text = ContextText(r.chunks),
                                        !.pc = "discover"])

OtherDiscover(r) ==
    /\ other.pc = "discover"
    /\ OtherStep([other EXCEPT !.available_models = Candidates(r), !.logs = <<>>,
                               !.model_idx = 1, !.attempt = 0, !.pc = "post"])

\* the second query's loop after the log lg: next model, or the failure
\* message
OtherNextModel(lg) ==
    IF other.model_idx < Len(other.available_models)
    THEN [other EXCEPT !.logs = lg, !.model_idx = other.model_idx + 1, !.attempt = 0,
                       !.pc = "post"]
    ELSE [other EXCEPT !.logs = lg, !.payload = Str(AllFailedMessage(lg, API_KEY.val)),
                       !.pc = "returned"]

OtherPost(r) ==
    /\ other.pc = "post"
    /\ LET model == other.available_models[other.model_idx]
           step == AttemptBody(r, other.attempt)
           lg == Append(other.logs, LogEntry(model, step.code))
       IN  OtherStep(CASE step.act = "return" ->
                              [other EXCEPT !.payload = step.answer, !.pc = "returned"]
                       [] step.act = "sleep" -> [other EXCEPT !.pc = "sleep"]
                       [] step.act = "log" ->
                              IF ~step.brk /\ other.attempt + 1 < Attempts
                              THEN [other EXCEPT !.logs = lg, !.attempt = other.attempt + 1]
                              ELSE OtherNextModel(lg))

OtherSleep ==
    /\ other.pc = "sleep"
    /\ OtherStep([other EXCEPT !.attempt = other.attempt + 1, !.pc = "post"])

\* the steps of the second query
OtherNext ==
    \/ OtherEntry
    \/ \E w \in ConcStoreWorlds : OtherSearch(w)
    \/ \E r \in ConcDiscoveryResponses : OtherDiscover(r)
    \/ \E r \in ConcGenerationResponses : OtherPost(r)
    \/ OtherSleep

\* the steps of the first query
FirstNext ==
    \/ Entry
    \/ \E w \in ConcStoreWorlds : Search(w)
    \/ \E r \in ConcDiscoveryResponses : Discover(r)
    \/ \E r \in ConcGenerationResponses : Post(r)
    \/ Sleep

\* two requests have arrived at the backend
InitConc ==
    /\ variant = "backend"
    /\ \E a \in EnvValues, g \in EnvValues : API_KEY = PyOr(a, g)
    /\ message \in Messages
    /\ pc = "entry"
    /\ context_chunks = <<>>
    /\ context_text = <<>>
    /\ resp = NoResponse
    /\ available_models = <<>>
    /\ model_idx = 0
    /\ attempt = 0
    /\ response = NoGenResponse
    /\ logs = <<>>
    /\ payload = Unset
    /\ calls = <<>>
    /\ \E m \in OtherMessages : other = [NoOther EXCEPT !.pc = "entry", !.message = m]
    /\ loop = "free"

NextConc ==
    \/ Entry
    \/ \E w \in ConcStoreWorlds : Search(w)
    \/ \E r \in ConcDiscoveryResponses : Discover(r)
    \/ \E r \in ConcGenerationResponses : Post(r)
    \/ Sleep
    \/ OtherEntry
    \/ \E w \in ConcStoreWorlds : OtherSearch(w)
    \/ \E r \in ConcDiscoveryResponses : OtherDiscover(r)
    \/ \E r \in ConcGenerationResponses : OtherPost(r)
    \/ OtherSleep

SpecConc == InitConc /\ [][NextConc]_vars

\* ------------------------------------------------------------------------
\* Vocabulary of the properties
\* ------------------------------------------------------------------------
Returned == pc = "returned"

\* the generation requests issued so far, in order
GenCalls == SelectSeq(calls, LAMBDA c : c.kind = "generate")

HasCall(kind) == \E i \in 1..Len(calls) : calls[i].kind = kind

LastGen == GenCalls[Len(GenCalls)]

\* the cascade has sent at least one generation request
InCascade == variant = "backend" /\ GenCalls # <<>>

\* a generation response that carries an answer text
Succeeded(r) ==
    /\ ~r.exc
    /\ r.status = 200
    /\ r.body.json
    /\ r.body.has_candidates
    /\ r.body.candidates # <<>>
    /\ r.body.candidates[1].has_text

\* a 200 response without the answer field
LacksAnswer(r) ==
    /\ ~r.exc
    /\ r.status = 200
    /\ r.body.json
    /\ \/ ~r.body.has_candidates
       \/ r.body.candidates = <<>>
       \/ ~r.body.candidates[1].has_text

\* the endpoint returned after the last candidate failed
AllFailed == Returned /\ InCascade /\ ~Succeeded(response)

\* the log entry at position i names candidate i
EntryNames(i) ==
    /\ i \in 1..Len(logs)
    /\ i \in 1..Len(available_models)
    /\ Len(logs[i]) > Len(available_models[i]) + 1
    /\ Prefix(logs[i], Len(available_models[i]) + 1) = available_models[i] \o <<": ">>

\* the code at the end of log entry i
EntryCode(i) == SubSeq(logs[i], Len(available_models[i]) + 2, Len(logs[i]))

\* ------------------------------------------------------------------------
\* Properties
\* ------------------------------------------------------------------------
\* C1: whatever the external calls answer, the endpoint returns a payload
\* whose response is a string, never null.
C1_ResponseIsString == Returned => payload.type = "str"

\* C2: when the store cannot be reached the query goes on with an empty
\* context: discovery and generation run, and the response is the cascade's
\* (an answer or the all-failed message), never the internal error.
C2_RetrievalFailureDegrades ==
    (calls # <<>> /\ calls[1].kind = "search" /\ calls[1].unavailable) =>
        /\ context_text = <<>>
        /\ FinalPrompt(context_text, message) =
              system_instruction
                  \o <<"\n            ", "Context:", "\n            ",
                       "\n            ", "Question:", "\n            ">>
                  \o message \o <<"\n            ">>
        /\ ~calls[1].exc
        /\ pc # "search"
        /\ Returned =>
              /\ GenCalls # <<>>
              /\ variant = "backend" => HasCall("discover")
              /\ payload # Str(InternalErrorMessage)
              /\ variant = "backend" =>
                    \/ Succeeded(response) /\ payload = response.body.candidates[1].text
                    \/ payload = Str(AllFailedMessage(logs, API_KEY.val))

C2_Witness ==
    /\ Returned
    /\ variant = "backend"
    /\ payload = Str(<<"ans">>)
    /\ calls[1].kind = "search"
    /\ calls[1].unavailable
    /\ HasCall("discover")

\* no key is configured: the variables are unset or empty
KeyMissing == API_KEY = None \/ API_KEY = Str(<<>>)

\* C3: without an API key the endpoint returns the fixed message and issues
\* no external call at all.
C3_NoKeyNoCalls ==
    KeyMissing =>
        /\ calls = <<>>
        /\ pc \in {"entry", "returned"}
        /\ Returned =>
              payload = IF variant = "backend" THEN Str(MissingKeyMessage)
                        ELSE Str(SdkMissingKeyMessage)

C3_Witness ==
    /\ Returned
    /\ variant = "backend"
    /\ API_KEY = Str(<<>>)
    /\ payload = Str(MissingKeyMessage)

\* C4: a generation response that carries an answer ends the cascade at
\* once: that answer is returned, no request has gone to a later candidate,
\* and the log holds one entry for each candidate before the successful one
\* and none for it or for later ones.
C4_FirstSuccessWins ==
    (InCascade /\ Succeeded(response)) =>
        /\ Returned
        /\ payload = response.body.candidates[1].text
        /\ LastGen.idx = model_idx
        /\ \A k \in 1..Len(GenCalls) : GenCalls[k].idx <= model_idx
        /\ Len(logs) = model_idx - 1
        /\ \A i \in 1..Len(logs) : EntryNames(i)

\* A is rate-limited twice, B is not found, C answers "ans"
C4_Witness ==
    /\ Returned
    /\ variant = "backend"
    /\ payload = Str(<<"ans">>)
    /\ Len(GenCalls) = 4
    /\ [k \in 1..4 |-> GenCalls[k].status] = <<429, 429, 404, 200>>
    /\ [k \in 1..4 |-> GenCalls[k].idx] = <<1, 1, 2, 3>>
    /\ logs = <<LogEntry(available_models[1], <<"4", "2", "9">>),
                LogEntry(available_models[2], <<"4", "0", "4">>)>>

\* C5: after a 429 on a candidate's first try the cascade sleeps and sends
\* the next request to the same candidate; after a 429 on its second try
\* the candidate is logged with 429 and the next request goes to the next
\* candidate.
C5_RateLimitRetriesSameCandidate ==
    variant = "backend" =>
        /\ \A k \in 1..Len(GenCalls) :
              (~GenCalls[k].exc /\ GenCalls[k].status = 429) =>
                 IF GenCalls[k].attempt = 0
                 THEN /\ k < Len(GenCalls) =>
                            /\ GenCalls[k + 1].idx = GenCalls[k].idx
                            /\ GenCalls[k + 1].model = GenCalls[k].model
                            /\ GenCalls[k + 1].attempt = 1
                      /\ k = Len(GenCalls) =>
                            /\ model_idx = GenCalls[k].idx
                            /\ \/ pc = "sleep" /\ attempt = 0
                               \/ pc = "post" /\ attempt = 1
                      /\ Len(logs) < GenCalls[k].idx \/ EntryCode(GenCalls[k].idx) # <<"4", "2", "9">>
                            \/ (\E j \in (k + 1)..Len(GenCalls) :
                                   GenCalls[j].idx = GenCalls[k].idx /\ GenCalls[j].status = 429)
                 ELSE /\ EntryNames(GenCalls[k].idx)
                      /\ logs[GenCalls[k].idx] = LogEntry(GenCalls[k].model, <<"4", "2", "9">>)
                      /\ k < Len(GenCalls) =>
                            /\ GenCalls[k + 1].idx = GenCalls[k].idx + 1
                            /\ GenCalls[k + 1].attempt = 0
                      /\ k = Len(GenCalls) =>
                            \/ pc = "post" /\ model_idx = GenCalls[k].idx + 1 /\ attempt = 0
                            \/ Returned /\ GenCalls[k].idx = Len(available_models)

\* a candidate rate-limited twice, and the request after that
C5_Witness ==
    /\ variant = "backend"
    /\ Len(GenCalls) = 3
    /\ [k \in 1..3 |-> GenCalls[k].status] = <<429, 429, 500>>
    /\ [k \in 1..3 |-> GenCalls[k].idx] = <<1, 1, 2>>
    /\ [k \in 1..3 |-> GenCalls[k].attempt] = <<0, 1, 0>>

\* the code the log shows for a request that failed with a status other
\* than 429 or with a transport exception
FailureCode(c) == IF c.exc THEN <<"Error">> ELSE IntStr(c.status)

\* C6: a request that ends in 404, in another error status or in a transport
\* exception is not repeated: the candidate gets its one log entry and the
\* next request, if there is one, goes to the next candidate.
C6_PermanentFailureNotRetried ==
    variant = "backend" =>
        /\ Len(logs) <= Len(available_models)
        /\ \A k \in 1..Len(GenCalls) :
              (GenCalls[k].exc \/ GenCalls[k].status \notin {200, 429}) =>
                 /\ EntryNames(GenCalls[k].idx)
                 /\ logs[GenCalls[k].idx] = LogEntry(GenCalls[k].model, FailureCode(GenCalls[k]))
                 /\ k < Len(GenCalls) =>
                       /\ GenCalls[k + 1].idx = GenCalls[k].idx + 1
                       /\ GenCalls[k + 1].attempt = 0
                 /\ k = Len(GenCalls) =>
                       /\ Len(logs) = GenCalls[k].idx
                       /\ \/ pc = "post" /\ model_idx = GenCalls[k].idx + 1 /\ attempt = 0
                          \/ Returned /\ GenCalls[k].idx = Len(available_models)

\* a 404 on a first try, a timeout and a 500 after a 429, each followed by
\* a request to the next candidate
C6_Witness ==
    /\ variant = "backend"
    /\ Len(GenCalls) = 5
    /\ [k \in 1..5 |-> GenCalls[k].status] = <<404, 0, 429, 500, 200>>
    /\ [k \in 1..5 |-> GenCalls[k].exc] = <<FALSE, TRUE, FALSE, FALSE, FALSE>>
    /\ [k \in 1..5 |-> GenCalls[k].idx] = <<1, 2, 3, 3, 4>>

\* C7: a 200 response without the answer field (no candidates, an empty
\* list, a candidate without text) is not an answer: nothing is returned
\* from it, the candidate is logged as failed and the cascade moves to the
\* next candidate with no second request to this one.
C7_MalformedSuccessNotRetried ==
    (InCascade /\ LacksAnswer(response)) =>
        /\ pc # "sleep"
        /\ Len(logs) = LastGen.idx
        /\ EntryNames(LastGen.idx)
        /\ EntryCode(LastGen.idx) \in {<<"2", "0", "0">>, <<"Error">>}
        /\ \/ /\ pc = "post"
              /\ model_idx = LastGen.idx + 1
              /\ attempt = 0
              /\ payload = Unset
           \/ /\ Returned
              /\ LastGen.idx = Len(available_models)
              /\ payload = Str(AllFailedMessage(logs, API_KEY.val))

\* the first candidate answered 200 with an empty candidates list and the
\* second one 200 with a candidate that has no text
C7_Witness ==
    /\ variant = "backend"
    /\ pc = "post"
    /\ model_idx = 3
    /\ Len(GenCalls) = 2
    /\ response.status = 200
    /\ response.body.candidates = <<[has_text |-> FALSE, text |-> None]>>
    /\ logs = <<LogEntry(available_models[1], <<"2", "0", "0">>),
                LogEntry(available_models[2], <<"Error">>)>>

\* the last request sent to candidate i
LastCallTo(i) ==
    LET ks == {k \in 1..Len(GenCalls) : GenCalls[k].idx = i}
    IN  GenCalls[CHOOSE k \in ks : \A j \in ks : j <= k]

\* C8: when every candidate has failed the log holds exactly one entry per
\* candidate, in candidate order, each with the candidate's id and the
\* outcome of its last request: the status, or Error when that request or
\* the reading of its 200 body raised.
C8_TerminalLogOnePerCandidate ==
    AllFailed =>
        /\ Len(logs) = Len(available_models)
        /\ payload = Str(AllFailedMessage(logs, API_KEY.val))
        /\ \A i \in 1..Len(available_models) :
              /\ \E k \in 1..Len(GenCalls) : GenCalls[k].idx = i
              /\ LastCallTo(i).model = available_models[i]
              /\ EntryNames(i)
              /\ IF LastCallTo(i).exc THEN EntryCode(i) = <<"Error">>
                 ELSE IF LastCallTo(i).status = 200
                      THEN EntryCode(i) \in {<<"2", "0", "0">>, <<"Error">>}
                      ELSE EntryCode(i) = IntStr(LastCallTo(i).status)
        /\ EntryCode(Len(logs)) = <<"2", "0", "0">> <=>
              /\ ~response.exc /\ response.status = 200 /\ response.body.json
              /\ ~response.body.has_candidates \/ response.body.candidates = <<>>

\* 429 then 500, 429 then 429, 200 without candidates, and 404
C8_Witness ==
    /\ AllFailed
    /\ available_models = FallbackModels
    /\ [k \in 1..Len(GenCalls) |-> GenCalls[k].status] = <<429, 500, 429, 429, 200, 404>>
    /\ [i \in 1..4 |-> EntryCode(i)] =
          << <<"5", "0", "0">>, <<"4", "2", "9">>, <<"2", "0", "0">>, <<"4", "0", "4">> >>

\* a candidate answered with the empty text
EmptyAnswer ==
    /\ Returned
    /\ InCascade
    /\ Succeeded(response)
    /\ response.body.candidates[1].text = Str(<<>>)

\* C9: the payload of a query whose candidates all failed is never the
\* payload of a query answered with the empty text: the latter is the empty
\* string, the former a non-empty error message.
C9_FailureIsNotEmptyAnswer ==
    /\ EmptyAnswer => payload = Str(<<>>)
    /\ AllFailed =>
          /\ payload # Str(<<>>)
          /\ payload.type = "str"
          /\ Len(payload.val) > 0
          /\ payload.val[1] = "Error: All models failed. Debug: "

C9_Witness ==
    /\ AllFailed
    /\ payload.type = "str"
    /\ Len(logs) = 4

\* a discovery response that names no usable candidate
DiscoveryUnusable(r) ==
    \/ r.exc
    \/ r.status # 200
    \/ ~r.body.json
    \/ ~r.body.has_models
    \/ \A i \in 1..Len(r.body.models) : ~r.body.models[i].generate
    \/ \E i \in 1..Len(r.body.models) :
          r.body.models[i].generate /\ ~r.body.models[i].has_name

\* the discovery request has been answered and no generation request sent
AfterDiscovery ==
    /\ calls # <<>>
    /\ calls[Len(calls)].kind = "discover"

\* C10: when discovery fails or names no model that supports generation the
\* cascade runs on the hardcoded list; discovery never ends the query, and
\* the list the cascade walks is never empty.
C10_DiscoveryFallback ==
    /\ AfterDiscovery =>
          /\ pc = "post"
          /\ payload = Unset
          /\ model_idx = 1
          /\ DiscoveryUnusable(resp) => available_models = FallbackModels
    /\ (variant = "backend" /\ HasCall("discover")) =>
          /\ available_models # <<>>
          /\ model_idx \in 1..Len(available_models)

C10_Witness ==
    /\ AfterDiscovery
    /\ resp.status = 200
    /\ resp.body.has_models
    /\ Len(resp.body.models) = 2
    /\ \A i \in 1..2 : ~resp.body.models[i].generate \/ ~resp.body.models[i].has_name
    /\ available_models = FallbackModels

\* the major version a model name shows (a name without a version is of
\* the first generation)
MajorVersion(x) == IF Contains(x, "2.0") \/ Contains(x, "2.5") THEN 2 ELSE 1

\* the names a usable discovery response offers, in listing order
ListedNames(r) ==
    LET capable == SelectSeq(r.body.models, LAMBDA m : m.generate)
    IN  [i \in 1..Len(capable) |-> SelectSeq(capable[i].name, LAMBDA t : t # "models/")]

\* position of the name x in the list d
PositionIn(d, x) == CHOOSE i \in 1..Len(d) : d[i] = x

\* the key of the code as a tuple of 0/1: no "2.0", no "1.5", no "flash"
KeyTuple(x) ==
    << IF \E i \in 1..Len(x) : x[i] = "2.0" THEN 0 ELSE 1,
       IF \E i \in 1..Len(x) : x[i] = "1.5" THEN 0 ELSE 1,
       IF \E i \in 1..Len(x) : x[i] = "flash" THEN 0 ELSE 1 >>

\* lexicographic order on key tuples
KeyLess(a, b) ==
    \/ a[1] < b[1]
    \/ a[1] = b[1] /\ a[2] < b[2]
    \/ a[1] = b[1] /\ a[2] = b[2] /\ a[3] < b[3]

\* the candidate list is a permutation of the listed capable names
IsPermutationOfListed ==
    /\ Len(available_models) = Len(ListedNames(resp))
    /\ \A i \in 1..Len(available_models) :
          \E j \in 1..Len(ListedNames(resp)) : ListedNames(resp)[j] = available_models[i]
    /\ \A j \in 1..Len(ListedNames(resp)) :
          \E i \in 1..Len(available_models) : ListedNames(resp)[j] = available_models[i]

\* candidates with equal keys keep their listing order
KeepsListingOrder ==
    \A i, j \in 1..Len(available_models) :
        (i < j /\ KeyTuple(available_models[i]) = KeyTuple(available_models[j])) =>
            PositionIn(ListedNames(resp), available_models[i])
                < PositionIn(ListedNames(resp), available_models[j])

\* the requests follow the candidate list from its head
TriedInListOrder ==
    \A k \in 1..Len(GenCalls) :
        /\ GenCalls[k].idx \in 1..Len(available_models)
        /\ GenCalls[k].model = available_models[GenCalls[k].idx]
        /\ k > 1 => GenCalls[k - 1].idx <= GenCalls[k].idx

\* C11 as stated: the discovered candidates are a permutation of the listed
\* ones in which no candidate of a newer major version comes after one of
\* an older version, equal candidates keeping their listing order.
C11_NewerMajorVersionFirst ==
    (AfterDiscovery /\ ~DiscoveryUnusable(resp)) =>
        /\ IsPermutationOfListed
        /\ KeepsListingOrder
        /\ \A i, j \in 1..Len(available_models) :
              i < j => MajorVersion(available_models[i]) >= MajorVersion(available_models[j])

\* C11 amended: the discovered candidates are tried in the order of a stable
\* sort of the listing by the key (no "2.0", no "1.5", no "flash"): names
\* with 2.0 first, then names with 1.5, then the rest, flash first in each
\* group; any other version gets no preference.
C11_SortedByFixedKey ==
    /\ variant = "backend" => TriedInListOrder
    /\ (AfterDiscovery /\ ~DiscoveryUnusable(resp)) =>
          /\ IsPermutationOfListed
          /\ KeepsListingOrder
          /\ \A i, j \in 1..Len(available_models) :
                i < j => ~KeyLess(KeyTuple(available_models[j]), KeyTuple(available_models[i]))

\* a listing of 1.5-pro before 2.0-flash is tried 2.0-flash first
C11_Witness ==
    /\ pc = "post"
    /\ Len(GenCalls) = 1
    /\ GenCalls[1].status = 404
    /\ available_models = << <<"gemini-", "2.0", "-", "flash">>, <<"gemini-", "1.5", "-", "pro">> >>
    /\ model_idx = 2

\* the number of requests sent to candidate i
RequestsTo(i) == Cardinality({k \in 1..Len(GenCalls) : GenCalls[k].idx = i})

\* C12 as stated: a first try that ends in a timeout (a transport
\* exception) or in a 429 is followed by a second try of the same candidate.
C12_TransientFailuresRetried ==
    variant = "backend" =>
        \A k \in 1..Len(GenCalls) :
            ((GenCalls[k].exc \/ GenCalls[k].status = 429)
                 /\ GenCalls[k].attempt = 0 /\ k < Len(GenCalls)) =>
                /\ GenCalls[k + 1].idx = GenCalls[k].idx
                /\ GenCalls[k + 1].attempt = 1

\* C12 amended: only a 429 is retried, once, on the same candidate; a
\* timeout is not retried, the cascade goes to the next candidate at once;
\* no candidate gets more than Attempts requests.
C12_OnlyRateLimitRetried ==
    variant = "backend" =>
        /\ \A i \in 1..Len(available_models) : RequestsTo(i) <= 2
        /\ \A k \in 1..Len(GenCalls) :
              /\ (GenCalls[k].status = 429 /\ GenCalls[k].attempt = 0 /\ k < Len(GenCalls)) =>
                    GenCalls[k + 1].idx = GenCalls[k].idx /\ GenCalls[k + 1].attempt = 1
              /\ (GenCalls[k].exc /\ k < Len(GenCalls)) =>
                    GenCalls[k + 1].idx = GenCalls[k].idx + 1 /\ GenCalls[k + 1].attempt = 0
              /\ (GenCalls[k].exc /\ k = Len(GenCalls)) =>
                    \/ pc = "post" /\ model_idx = GenCalls[k].idx + 1 /\ attempt = 0
                    \/ Returned /\ GenCalls[k].idx = Len(available_models)

\* a 429 retried into a timeout, a timeout on a first try, and the requests
\* that followed them
C12_Witness ==
    /\ variant = "backend"
    /\ Len(GenCalls) = 4
    /\ [k \in 1..4 |-> GenCalls[k].status] = <<429, 0, 0, 429>>
    /\ [k \in 1..4 |-> GenCalls[k].exc] = <<FALSE, TRUE, TRUE, FALSE>>
    /\ [k \in 1..4 |-> GenCalls[k].idx] = <<1, 1, 2, 3>>

\* the request ended its candidate's turn with a failure: an exception, an
\* error status other than a first 429, or a 200 that gave no answer
FinalFailure(c) ==
    \/ c.exc
    \/ c.status \notin {200, 429}
    \/ c.status = 429 /\ c.attempt = 1
    \/ c.status = 200

\* C13: the calls of one query form one sequence: the search, then the
\* discovery, then the generation requests, each issued after the one
\* before it was answered; candidate i+1 is asked only after the last
\* request to candidate i has failed, and no call follows the return.
C13_CallsAreSequential ==
    variant = "backend" =>
        /\ \A i \in 1..Len(calls) :
              /\ calls[i].kind = "search" <=> i = 1
              /\ calls[i].kind = "discover" <=> i = 2
              /\ calls[i].kind = "generate" <=> i >= 3
        /\ GenCalls # <<>> => GenCalls[1].idx = 1 /\ GenCalls[1].attempt = 0
        /\ \A k \in 1..(Len(GenCalls) - 1) :
              \/ /\ GenCalls[k + 1].idx = GenCalls[k].idx
                 /\ GenCalls[k + 1].attempt = GenCalls[k].attempt + 1
                 /\ ~FinalFailure(GenCalls[k])
              \/ /\ GenCalls[k + 1].idx = GenCalls[k].idx + 1
                 /\ GenCalls[k + 1].attempt = 0
                 /\ FinalFailure(GenCalls[k])
                 /\ Len(logs) >= GenCalls[k].idx
        /\ (InCascade /\ Succeeded(response)) => Returned
        /\ InCascade => response.status = LastGen.status /\ response.exc = LastGen.exc

\* search, discovery, two requests to the first candidate and one to the
\* second
C13_Witness ==
    /\ variant = "backend"
    /\ Len(calls) = 5
    /\ [i \in 1..5 |-> calls[i].kind] = <<"search", "discover", "generate", "generate", "generate">>
    /\ [i \in 1..5 |-> calls[i].idx] = <<0, 0, 1, 1, 2>>
    /\ [i \in 1..5 |-> calls[i].status] = <<0, 0, 429, 500, 404>>

\* C14: a query in its rate-limit backoff does not hold the event loop, so
\* it does not hold up another query: while one sleeps, every step the
\* other one has at its position is enabled as it would be alone, and the
\* other one can run from its start to its return meanwhile.
C14_BackoffDoesNotBlock ==
    /\ pc = "sleep" =>
          /\ other.pc = "entry" => ENABLED OtherEntry
          /\ other.pc = "search" => ENABLED (\E w \in ConcStoreWorlds : OtherSearch(w))
          /\ other.pc = "discover" =>
                ENABLED (\E r \in ConcDiscoveryResponses : OtherDiscover(r))
          /\ other.pc = "post" => ENABLED (\E r \in ConcGenerationResponses : OtherPost(r))
          /\ other.pc = "sleep" => ENABLED OtherSleep
    /\ other.pc = "sleep" =>
          /\ pc = "entry" => ENABLED Entry
          /\ pc = "search" => ENABLED (\E w \in ConcStoreWorlds : Search(w))
          /\ pc = "discover" => ENABLED (\E r \in ConcDiscoveryResponses : Discover(r))
          /\ pc = "post" => ENABLED (\E r \in ConcGenerationResponses : Post(r))
          /\ pc = "sleep" => ENABLED Sleep

\* for comparison: between the key check and the first await the code runs
\* search_textbook without an await, and there the other query has to wait
LoopHeldWithoutAwait ==
    /\ (pc = "search" /\ other.pc = "entry") => ~ENABLED OtherEntry
    /\ (other.pc = "search" /\ pc = "entry") => ~ENABLED Entry

\* the second query ran from entry to its answer while the first one slept
C14_Witness ==
    /\ pc = "sleep"
    /\ other.pc = "returned"
    /\ other.solo
    /\ other.payload = Str(<<"ans">>)
    /\ Len(other.logs) = 1

\* the log of the second query names its own candidates, one entry for
\* each candidate that is done
OtherLogIsOwn ==
    other.pc \in {"post", "sleep", "returned"} =>
        /\ Len(other.logs) \in {other.model_idx - 1, other.model_idx}
        /\ \A i \in 1..Len(other.logs) :
              /\ i <= Len(other.available_models)
              /\ Len(other.logs[i]) > Len(other.available_models[i]) + 1
              /\ SubSeq(other.logs[i], 1, Len(other.available_models[i]))
                    = other.available_models[i]

\* the log of the first query names its own candidates
FirstLogIsOwn ==
    pc \in {"post", "sleep", "returned"} =>
        /\ Len(logs) \in {model_idx - 1, model_idx}
        /\ \A i \in 1..Len(logs) : EntryNames(i)

\* C15: queries share nothing they change: no step changes the API key or
\* a message, every step changes the state of one query only, and each
\* query's log holds entries for its own candidates only, whatever the
\* interleaving.
C15_NoSharedMutableState ==
    /\ [][/\ API_KEY' = API_KEY
          /\ message' = message
          /\ other'.message = other.message
          /\ other' = other \/ Q1Vars' = Q1Vars]_vars
    /\ [](FirstLogIsOwn /\ OtherLogIsOwn)

\* both queries are in their cascades, on different candidate lists, each
\* with its own log
C15_Witness ==
    /\ pc = "post"
    /\ other.pc = "post"
    /\ available_models = FallbackModels
    /\ Len(other.available_models) = 2
    /\ Len(logs) = 2
    /\ Len(other.logs) = 1

\* the passages of cs in their order, a blank line between neighbours
RECURSIVE InRankOrder(_)
InRankOrder(cs) ==
    IF cs = <<>> THEN <<>>
    ELSE IF Len(cs) = 1 THEN cs[1].content
    ELSE InRankOrder(SubSeq(cs, 1, Len(cs) - 1)) \o <<"\n\n">> \o cs[Len(cs)].content

\* the search has returned to the endpoint
SearchReturned == calls # <<>> /\ calls[1].kind = "search" /\ ~calls[1].exc

\* C16: the context is the retrieved passages in the order retrieval gave
\* them, joined by blank lines, each passage once; with no passage it is
\* the empty string and the query goes on to generation.
C16_ContextInRankOrder ==
    SearchReturned =>
        /\ Len(context_chunks) <= top_k
        /\ context_text = InRankOrder(context_chunks)
        /\ context_chunks = <<>> => context_text = <<>>
        /\ pc \notin {"entry", "search"}
        /\ Returned => GenCalls # <<>>

\* p2 was ranked before p1, and the query was answered
C16_Witness ==
    /\ Returned
    /\ payload = Str(<<"ans">>)
    /\ context_chunks = <<[content |-> <<"p2">>], [content |-> <<"p1">>]>>
    /\ context_text = <<"p2", "\n\n", "p1">>

\* the four ways the backend endpoint returns
ReturnedAnswer == InCascade /\ Succeeded(response) /\ payload = response.body.candidates[1].text

ReturnedAllFailed ==
    /\ InCascade
    /\ ~Succeeded(response)
    /\ payload.type = "str"
    /\ Len(payload.val) > 0
    /\ payload.val[1] = "Error: All models failed. Debug: "

ReturnedMissingKey == calls = <<>> /\ payload = Str(MissingKeyMessage)

ReturnedInternalError == ~InCascade /\ calls # <<>> /\ payload = Str(InternalErrorMessage)

\* C17: every query returns, given that every external call is answered or
\* raises, and the backend returns in exactly one of four ways: an answer,
\* the all-models-failed message, the missing-key message, the
\* internal-error message; it sends at most Attempts requests per candidate
\* however often it is rate-limited.
C17_EveryQueryReturns ==
    /\ <>Returned
    /\ []((Returned /\ variant = "backend") =>
            Cardinality({k \in 1..4 :
                <<ReturnedAnswer, ReturnedAllFailed, ReturnedMissingKey,
                  ReturnedInternalError>>[k]}) = 1)
    /\ []((Returned /\ InCascade) => model_idx <= Len(available_models))

\* every candidate of the hardcoded list was rate-limited on every request,
\* and the endpoint returned
C17_Witness ==
    /\ Returned
    /\ ReturnedAllFailed
    /\ Len(GenCalls) = 8
    /\ \A k \in 1..8 : GenCalls[k].status = 429

\* C18: no candidate gets more than 2 generation requests, a second
\* request only follows a 429 answer to the first one, and a query sends at
\* most twice as many generation requests as it has candidates.
C18_AtMostTwoRequestsPerCandidate ==
    variant = "backend" =>
        /\ \A i \in 1..Len(available_models) :
              Cardinality({k \in 1..Len(GenCalls) : GenCalls[k].idx = i}) <= 2
        /\ \A k \in 1..Len(GenCalls) :
              /\ GenCalls[k].attempt \in {0, 1}
              /\ GenCalls[k].attempt = 1 =>
                    /\ k > 1
                    /\ GenCalls[k - 1].idx = GenCalls[k].idx
                    /\ GenCalls[k - 1].attempt = 0
                    /\ ~GenCalls[k - 1].exc
                    /\ GenCalls[k - 1].status = 429
              /\ (k > 1 /\ GenCalls[k - 1].idx = GenCalls[k].idx) => GenCalls[k].attempt = 1
        /\ Len(GenCalls) <= 2 * Len(available_models)

\* two candidates, four requests
C18_Witness ==
    /\ variant = "backend"
    /\ Len(available_models) = 2
    /\ Len(GenCalls) = 4
    /\ [k \in 1..4 |-> GenCalls[k].idx] = <<1, 1, 2, 2>>
    /\ Returned

\* s occurs in t as a run of neighbouring elements
OccursIn(s, t) ==
    \E i \in 0..(Len(t) - Len(s)) : SubSeq(t, i + 1, i + Len(s)) = s

\* C19: the response never holds the whole API key, at most a proper
\* prefix of it.
C19_ResponseHidesKey ==
    (Returned /\ API_KEY.type = "str" /\ API_KEY.val # <<>> /\ payload.type = "str") =>
        ~OccursIn(API_KEY.val, payload.val)

\* the name of a listed model, without "models/"
ListedName(m) == SelectSeq(m.name, LAMBDA t : t # "models/")

\* x is an element of the list l
ElementOf(x, l) == \E i \in 1..Len(l) : l[i] = x

\* C20: the candidates are either the hardcoded list or models the
\* discovery response listed with generateContent, never a mix and never a
\* listed model without that capability; the list stays as it is during
\* the cascade and every generation request goes to one of its members.
C20_CandidatesAreAuthorized ==
    /\ [](AfterDiscovery =>
            /\ \/ available_models = FallbackModels
               \/ /\ ~DiscoveryUnusable(resp)
                  /\ \A i \in 1..Len(available_models) :
                        ElementOf(available_models[i], ListedNames(resp))
            /\ (resp.body.json /\ resp.body.has_models) =>
                  \A j \in 1..Len(resp.body.models) :
                      (resp.body.models[j].has_name /\ ~resp.body.models[j].generate) =>
                          ~ElementOf(ListedName(resp.body.models[j]), available_models))
    /\ [](variant = "backend" =>
            \A k \in 1..Len(GenCalls) :
                /\ GenCalls[k].idx \in 1..Len(available_models)
                /\ GenCalls[k].model = available_models[GenCalls[k].idx])
    /\ [][(pc \in {"post", "sleep"}) => (available_models' = available_models)]_vars

\* C20: the candidates come from one source. When the discovery response
\* lists a usable model with generateContent they are listed models with
\* that capability only, and a listed model without it is not among them;
\* otherwise they are the hardcoded list as it stands, whatever the listing
\* said of its members. The list stays as it is during the cascade and
\* every generation request goes to the list element at the request's index.
C20_CandidatesFromOneSource ==
    /\ [](AfterDiscovery =>
            /\ DiscoveryUnusable(resp) => available_models = FallbackModels
            /\ ~DiscoveryUnusable(resp) =>
                  /\ \A i \in 1..Len(available_models) :
                        ElementOf(available_models[i], ListedNames(resp))
                  /\ \A j \in 1..Len(resp.body.models) :
                        ~resp.body.models[j].generate =>
                            ~ElementOf(ListedName(resp.body.models[j]), available_models))
    /\ [](variant = "backend" =>
            \A k \in 1..Len(GenCalls) :
                /\ GenCalls[k].idx \in 1..Len(available_models)
                /\ GenCalls[k].model = available_models[GenCalls[k].idx])
    /\ [][(pc \in {"post", "sleep"}) => (available_models' = available_models)]_vars

\* the listing held gemini-2.0-flash-exp without generateContent and
\* gemini-pro with it: only gemini-pro is a candidate
C20_Witness ==
    /\ AfterDiscovery
    /\ resp.status = 200
    /\ Len(resp.body.models) = 2
    /\ resp.body.models[1].name = <<"models/", "gemini-", "2.0", "-", "flash", "-exp">>
    /\ ~resp.body.models[1].generate
    /\ available_models = << <<"gemini-", "pro">> >>

====
